---------------------------- MODULE Spec2Model ----------------------------
(***************************************************************************)
(* Model of convertaudio.py: a one-shot batch script that scans a folder,  *)
(* classifies every candidate file with `file -b`, decodes it to a WAV     *)
(* intermediate with opusdec / oggdec / ffmpeg, encodes it with lame, or   *)
(* copies it when it already is MP3.                                       *)
(*                                                                         *)
(* Strings are sequences of tokens.  In an entry name the dot is always a  *)
(* token of its own, so splitext's search for the last dot is the search   *)
(* for the last "." token.  In a classifier output the punctuation is a    *)
(* token of its own, so str.startswith is the prefix test on sequences.    *)
(* The file system of the output folder is a function from paths (relative *)
(* to converted_to_mp3/) to a content or Absent.                           *)
(***************************************************************************)
EXTENDS Naturals, Sequences, FiniteSets

(***************************************************************************)
(* Bounds                                                                  *)
(***************************************************************************)
\* Largest number of entries the scanned folder holds (besides the output
\* folder itself).
MaxEntries == 2

(***************************************************************************)
(* Strings of the program                                                  *)
(***************************************************************************)
StartsWith(s, prefix) ==
    /\ Len(prefix) <= Len(s)
    /\ SubSeq(s, 1, Len(prefix)) = prefix

\* The classifier signatures tested by convert_audio.
SigOpus   == <<"Ogg data", ",", " Opus audio">>
SigVorbis == <<"Ogg data", ",", " Vorbis audio">>
Sig3GPP   == <<"ISO Media", ",", " MPEG v4 system", ",", " 3GPP">>
SigAAC    == <<"MPEG ADTS", ",", " AAC">>
SigALAC   == <<"ISO Media", ",", " Apple iTunes ALAC/AAC-LC">>
SigMP4v2  == <<"ISO Media", ",", " MP4 v2">>
SigMP3    == <<"MPEG ADTS", ",", " layer III">>

\* The extensions the entry point accepts, and the suffixes it appends.
ExtList == << <<".", "ogg">>, <<".", "m4a">>, <<".", "opus">>,
              <<".", "aac">>, <<".", "mp4">> >>
Mp3Suffix  == <<".", "mp3">>
TempSuffix == <<".", "temp", ".", "wav">>
OutFolderName == <<"converted_to_mp3">>

\* os.path.splitext on an entry name (no directory separator in it): the
\* extension starts at the last dot, unless only dots precede that dot.
LastDot(name) ==
    LET dots == {i \in 1..Len(name) : name[i] = "."}
    IN  IF dots = {} THEN 0 ELSE CHOOSE i \in dots : \A j \in dots : j <= i

splitext(name) ==
    LET d == LastDot(name)
    IN  IF d > 0 /\ \E i \in 1..(d - 1) : name[i] # "."
        THEN <<SubSeq(name, 1, d - 1), SubSeq(name, d, Len(name))>>
        ELSE <<name, <<>> >>

\* Mutant: the test for hidden entries is missing.
MutIsHiddenNever(name) == FALSE

\* entry.name.startswith('.')
IsHidden(name) == StartsWith(name, <<".">>)

\* Mutant: '.mp3' is in the list as well.
MutExtensionAllowedWithMp3(extension) ==
    \/ \E i \in 1..Len(ExtList) : ExtList[i] = extension
    \/ extension = Mp3Suffix

\* extension in ['.ogg', '.m4a', '.opus', '.aac', '.mp4']
ExtensionAllowed(extension) ==
    \E i \in 1..Len(ExtList) : ExtList[i] = extension

\* os.path.join(mp3_folder, base_name + ".mp3"), relative to mp3_folder.
OutputPath(name) == splitext(name)[1] \o Mp3Suffix

\* temp_file = output_file + ".temp.wav"
TempPath(output_file) == output_file \o TempSuffix


(***************************************************************************)
(* convert_audio: the dispatch on the classifier output                    *)
(***************************************************************************)
\* Mutant: the AAC test looks at 'MPEG ADTS' only, which MPEG layer II and
\* layer III files start with as well.
MutBranchLooseADTS(audio_type) ==
    IF StartsWith(audio_type, SigOpus) THEN "OpusDecoding"
    ELSE IF StartsWith(audio_type, SigVorbis) THEN "VorbisDecoding"
    ELSE IF \/ StartsWith(audio_type, Sig3GPP)
            \/ StartsWith(audio_type, <<"MPEG ADTS">>)
            \/ StartsWith(audio_type, SigALAC)
            \/ StartsWith(audio_type, SigMP4v2) THEN "Mp4Decoding"
    ELSE IF StartsWith(audio_type, SigMP3) THEN "DirectCopy"
    ELSE "Skipped"

\* The if / elif chain of convert_audio, as the per-file state it leads to.
Branch(audio_type) ==
    IF StartsWith(audio_type, SigOpus) THEN "OpusDecoding"
    ELSE IF StartsWith(audio_type, SigVorbis) THEN "VorbisDecoding"
    ELSE IF \/ StartsWith(audio_type, Sig3GPP)
            \/ StartsWith(audio_type, SigAAC)
            \/ StartsWith(audio_type, SigALAC)
            \/ StartsWith(audio_type, SigMP4v2) THEN "Mp4Decoding"
    ELSE IF StartsWith(audio_type, SigMP3) THEN "DirectCopy"
    ELSE "Skipped"

\* The external decoder each decoding branch runs.
DecoderOf(state) ==
    IF state = "OpusDecoding" THEN "opusdec"
    ELSE IF state = "VorbisDecoding" THEN "oggdec"
    ELSE "ffmpeg"

\* Mutant: the encoder is called whatever the decoder returned.
MutAfterDecodeAlwaysEncode(returncode) == "Encoding"

\* if result.returncode == 0: convert_to_mp3(...)  else: print(...)
AfterDecode(returncode) == IF returncode = 0 THEN "Encoding" ELSE "Failed"

\* Mutant: a failed tool ends the script (as subprocess.run(check=True)
\* would, by an exception nobody catches).
MutResumeAtAbortOnFailure(state) == IF state = "Failed" THEN "done" ELSE "scan"

\* convert_audio returns to the for loop of the entry point whatever state
\* the file ended in: no branch raises or exits.
ResumeAt(state) == "scan"

\* convert_to_mp3: True (and the file is done) exactly on returncode 0.
EncodeReturns(returncode) == returncode = 0

\* Mutant: the exit code of the encoder is not looked at.
MutAfterEncodeAlwaysDone(returncode) == "Done"

AfterEncode(returncode) == IF EncodeReturns(returncode) THEN "Done" ELSE "Failed"

(***************************************************************************)
(* File contents                                                           *)
(***************************************************************************)
NoName == <<>>
Absent == [form |-> "absent", of |-> NoName]
\* A file left in the output folder by an earlier run.
Old == [form |-> "old", of |-> NoName]
\* The bytes of the input file called name.
InputContent(name) == [form |-> "orig", of |-> name]
\* What a decoder, the encoder and a failed tool leave behind.
Wav(name) == [form |-> "wav", of |-> name]
Mp3(name) == [form |-> "mp3", of |-> name]
Partial(name) == [form |-> "partial", of |-> name]

\* Mutant: the MP3 input is re-encoded instead of copied.
MutCopiedContentReencoded(name) == Mp3(name)

\* shutil.copy(input_file, output_file): the content written to output_file.
CopiedContent(name) == InputContent(name)

\* os.remove(temp_file) after a successful encoding.
AfterRemove(content) == Absent

\* The temp file after the encoder returned: removed only on returncode 0.
TempAfterEncode(returncode, content) ==
    IF returncode = 0 THEN AfterRemove(content) ELSE content

\* An external tool that exits non-zero leaves its output path as it was or
\* with a partial file: the program does not look.
FailureLeaves(content, name) == {content, Partial(name)}

\* Mutant: the output folder is removed and created anew on every run.
MutPrepareOutputFolderRecreate(exists, files) ==
    [exists |-> TRUE, files |-> [p \in DOMAIN files |-> Absent], made |-> 1]

\* if not os.path.isdir(mp3_folder): os.makedirs(mp3_folder)
PrepareOutputFolder(exists, files) ==
    IF ~exists
    THEN [exists |-> TRUE, files |-> files, made |-> 1]
    ELSE [exists |-> exists, files |-> files, made |-> 0]

(***************************************************************************)
(* Inputs: classifier outputs and folder entries                           *)
(***************************************************************************)
DescOpus   == SigOpus \o <<",", " version 0.1", ",", " stereo">>
DescVorbis == SigVorbis \o <<",", " stereo", ",", " 44100 Hz">>
Desc3GPP   == Sig3GPP \o <<" Media Release 4">>
DescAAC    == SigAAC \o <<",", " v4 LC", ",", " 44.1 kHz">>
DescALAC   == SigALAC
DescMP4v2  == SigMP4v2 \o <<" [ISO 14496-14]">>
DescMP3    == SigMP3 \o <<",", " v1", ",", " 128 kbps">>
\* Outputs that match no signature.
DescEmpty  == <<>>
DescOgg    == <<"Ogg data">>
DescMP2    == <<"MPEG ADTS", ",", " layer II", ",", " v1">>
DescID3    == <<"Audio file with ID3 version 2.4.0", ",", " contains:">> \o SigMP3
DescV4     == <<"ISO Media", ",", " MPEG v4 system", ",", " version 2">>
DescText   == <<"ASCII text">>
DescDir    == <<"directory">>

Entry(name, kind, desc) == [name |-> name, kind |-> kind, desc |-> desc]

FilesNamed(name, descs) == {Entry(name, "file", d) : d \in descs}

\* The entries a scanned folder is drawn from.
Candidates ==
    FilesNamed(<<"b", ".", "ogg">>, {DescVorbis, DescMP3, DescEmpty})
    \cup FilesNamed(<<"b", ".", "m4a">>, {DescALAC, Desc3GPP, DescV4})
    \cup FilesNamed(<<"f", ".", "opus">>, {DescOpus, DescOgg})
    \cup FilesNamed(<<"g", ".", "aac">>, {DescAAC, DescMP2, DescMP3})
    \cup FilesNamed(<<"h", ".", "mp4">>, {DescMP4v2, DescID3})
    \cup FilesNamed(<<"d", ".", "txt">>, {DescText})
    \cup FilesNamed(<<"e", ".", "OGG">>, {DescVorbis})
    \cup FilesNamed(<<".", "h", ".", "ogg">>, {DescVorbis})
    \cup {Entry(<<"s", ".", "ogg">>, "dir", DescDir)}

\* The entries the folders of the runs checked for termination are drawn
\* from: one or more per way an entry can be treated.
FairCandidates ==
    FilesNamed(<<"b", ".", "ogg">>, {DescVorbis, DescMP3, DescEmpty})
    \cup FilesNamed(<<"b", ".", "m4a">>, {DescALAC})
    \cup FilesNamed(<<"f", ".", "opus">>, {DescOpus})
    \cup FilesNamed(<<"d", ".", "txt">>, {DescText})
    \cup FilesNamed(<<".", "h", ".", "ogg">>, {DescVorbis})

\* The folder of the scenario: a.mp3, b.ogg (Vorbis), c.m4a and d.txt.
ScenarioEntries ==
    { Entry(<<"a", ".", "mp3">>, "file", DescMP3),
      Entry(<<"b", ".", "ogg">>, "file", DescVorbis),
      Entry(<<"c", ".", "m4a">>, "file", DescALAC),
      Entry(<<"d", ".", "txt">>, "file", DescText) }

AllNames ==
    {e.name : e \in Candidates \cup ScenarioEntries} \cup {OutFolderName}

\* A path of the output folder no input file maps to.
KeepPath == <<"keep", ".", "mp3">>

AllPaths ==
    {OutputPath(n) : n \in AllNames}
    \cup {TempPath(OutputPath(n)) : n \in AllNames}
    \cup {KeepPath}

\* Paths an earlier run may have left a file at.
StalePaths ==
    {KeepPath, OutputPath(<<"b", ".", "ogg">>),
     TempPath(OutputPath(<<"b", ".", "ogg">>))}

\* The folders with at most k entries, of distinct names.
RECURSIVE FoldersUpTo(_, _)
FoldersUpTo(entries, k) ==
    IF k = 0 THEN {{}}
    ELSE LET smaller == FoldersUpTo(entries, k - 1)
         IN  smaller \cup
             {x[1] \cup {x[2]} :
                 x \in {y \in smaller \X entries :
                           \A e \in y[1] : e.name # y[2].name}}

Folders(entries) == FoldersUpTo(entries, MaxEntries)

ScenarioFolders ==
    {ScenarioEntries \cup extra :
        extra \in FoldersUpTo(
            {e \in Candidates : \A x \in ScenarioEntries : x.name # e.name}, 1)}

ExitCodes == {0, 1}

States ==
    {"Unclassified", "OpusDecoding", "VorbisDecoding", "Mp4Decoding",
     "DirectCopy", "Skipped", "Encoding", "Done", "Failed"}

(***************************************************************************)
(* State                                                                   *)
(***************************************************************************)
VARIABLES
    folder,    \* the entries of the scanned folder (without the output folder)
    outdir,    \* whether converted_to_mp3/ exists
    fs,        \* the files of converted_to_mp3/: path -> content
    initial,   \* outdir and fs as the run found them
    made,      \* number of os.makedirs calls
    pc,        \* "start", "scan", "convert" or "done"
    todo,      \* names os.scandir has still to yield
    cur,       \* the name convert_audio is working on, or NoName
    st,        \* per name: the state of its processing
    calls,     \* per name: the external tools run for it, with exit codes
    log,       \* per name: the messages printed about it
    ret,       \* per name: what convert_to_mp3 returned ("none" if not called)
    wrote      \* per name: the output-folder paths its processing changed

vars == <<folder, outdir, fs, initial, made, pc, todo, cur, st, calls, log,
          ret, wrote>>

Names == {e.name : e \in folder}

EntryOf(name) == CHOOSE e \in folder : e.name = name

\* entry.is_file()
IsFile(name) == name # OutFolderName /\ EntryOf(name).kind = "file"

\* subprocess.run(['file', '-b', input_file]).stdout
AudioType(name) == EntryOf(name).desc

\* What os.scandir(folder) yields: the entries and the output folder.
ScanDir(exists) == Names \cup (IF exists THEN {OutFolderName} ELSE {})

InitWith(folders) ==
    /\ folder \in folders
    /\ outdir \in BOOLEAN
    /\ \E stale \in {{}, StalePaths} :
          fs = [p \in AllPaths |->
                  IF outdir /\ p \in stale THEN Old ELSE Absent]
    /\ initial = [outdir |-> outdir, fs |-> fs]
    /\ made = 0
    /\ pc = "start"
    /\ todo = {}
    /\ cur = NoName
    /\ st = [n \in AllNames |-> "Unclassified"]
    /\ calls = [n \in AllNames |-> <<>>]
    /\ log = [n \in AllNames |-> {}]
    /\ ret = [n \in AllNames |-> "none"]
    /\ wrote = [n \in AllNames |-> {}]

Init == InitWith(Folders(Candidates))

(***************************************************************************)
(* Actions                                                                 *)
(***************************************************************************)
Call(tool, returncode) == [tool |-> tool, rc |-> returncode]

\* Lines 76-81: create the output folder if it is missing, open the scan.
Start ==
    /\ pc = "start"
    /\ LET r == PrepareOutputFolder(outdir, fs)
       IN  /\ outdir' = r.exists
           /\ fs' = r.files
           /\ made' = made + r.made
           /\ todo' = ScanDir(r.exists)
    /\ pc' = "scan"
    /\ UNCHANGED <<folder, initial, cur, st, calls, log, ret, wrote>>

\* Line 83 false: a hidden entry or one that is no regular file is passed
\* over without a message.
PassOver ==
    /\ pc = "scan"
    /\ \E name \in todo :
          /\ ~(~IsHidden(name) /\ IsFile(name))
          /\ todo' = todo \ {name}
    /\ UNCHANGED <<folder, outdir, fs, initial, made, pc, cur, st, calls,
                   log, ret, wrote>>

\* Lines 84-88, else branch: the extension is not in the list.
SkipExtension ==
    /\ pc = "scan"
    /\ \E name \in todo :
          /\ ~IsHidden(name) /\ IsFile(name)
          /\ ~ExtensionAllowed(splitext(name)[2])
          /\ todo' = todo \ {name}
          /\ log' = [log EXCEPT ![name] = @ \cup {"Skipping"}]
    /\ UNCHANGED <<folder, outdir, fs, initial, made, pc, cur, st, calls,
                   ret, wrote>>

\* Lines 84-86 and 42-44, 50, 56-58, 65, 68: convert_audio is called, runs
\* the classifier and takes the branch of its output.
Dispatch ==
    /\ pc = "scan"
    /\ \E name \in todo :
          /\ ~IsHidden(name) /\ IsFile(name)
          /\ ExtensionAllowed(splitext(name)[2])
          /\ todo' = todo \ {name}
          /\ cur' = name
          /\ calls' = [calls EXCEPT ![name] = Append(@, Call("file", 0))]
          /\ st' = [st EXCEPT ![name] = Branch(AudioType(name))]
    /\ pc' = "convert"
    /\ UNCHANGED <<folder, outdir, fs, initial, made, log, ret, wrote>>

\* Lines 45-49, 51-55, 60-64: the decoder of the branch runs once; on exit
\* code 0 the WAV file is at the temp path and the encoder is next, otherwise
\* the error is printed and convert_audio returns.
Decode ==
    /\ pc = "convert"
    /\ st[cur] \in {"OpusDecoding", "VorbisDecoding", "Mp4Decoding"}
    /\ LET temp_file == TempPath(OutputPath(cur))
       IN  \E returncode \in ExitCodes :
           \E left \in IF returncode = 0 THEN {Wav(cur)}
                       ELSE FailureLeaves(fs[temp_file], cur) :
              /\ calls' = [calls EXCEPT
                             ![cur] = Append(@, Call(DecoderOf(st[cur]), returncode))]
              /\ fs' = [fs EXCEPT ![temp_file] = left]
              /\ wrote' = [wrote EXCEPT
                             ![cur] = IF left = fs[temp_file] /\ returncode # 0
                                      THEN @ ELSE @ \cup {temp_file}]
              /\ st' = [st EXCEPT ![cur] = AfterDecode(returncode)]
              /\ IF AfterDecode(returncode) = "Encoding"
                 THEN UNCHANGED <<pc, cur, log>>
                 ELSE /\ pc' = ResumeAt(AfterDecode(returncode))
                      /\ cur' = NoName
                      /\ log' = [log EXCEPT ![cur] = @ \cup {"Couldn't decode"}]
    /\ UNCHANGED <<folder, outdir, initial, made, todo, ret>>

\* Lines 31-38: convert_to_mp3 runs lame once; on exit code 0 it removes
\* the temp file and returns True, otherwise it prints the error and returns
\* False.  convert_audio ignores the returned value and returns.
Encode ==
    /\ pc = "convert"
    /\ st[cur] = "Encoding"
    /\ LET output_file == OutputPath(cur)
           temp_file == TempPath(output_file)
       IN  \E returncode \in ExitCodes :
           \E left \in IF returncode = 0 THEN {Mp3(cur)}
                       ELSE FailureLeaves(fs[output_file], cur) :
              /\ calls' = [calls EXCEPT ![cur] = Append(@, Call("lame", returncode))]
              /\ fs' = [fs EXCEPT
                          ![output_file] = left,
                          ![temp_file] = TempAfterEncode(returncode, @)]
              /\ wrote' = [wrote EXCEPT
                             ![cur] = @ \cup {p \in {output_file, temp_file} :
                                                fs'[p] # fs[p] \/ returncode = 0}]
              /\ ret' = [ret EXCEPT
                           ![cur] = IF EncodeReturns(returncode)
                                    THEN "True" ELSE "False"]
              /\ log' = [log EXCEPT
                           ![cur] = @ \cup {IF EncodeReturns(returncode)
                                            THEN "Successfully saved"
                                            ELSE "Error while trying to encode"}]
              /\ st' = [st EXCEPT ![cur] = AfterEncode(returncode)]
              /\ pc' = ResumeAt(AfterEncode(returncode))
    /\ cur' = NoName
    /\ UNCHANGED <<folder, outdir, initial, made, todo>>

\* Lines 66-67: the input already is MP3 and is copied to the output path.
Copy ==
    /\ pc = "convert"
    /\ st[cur] = "DirectCopy"
    /\ fs' = [fs EXCEPT ![OutputPath(cur)] = CopiedContent(cur)]
    /\ wrote' = [wrote EXCEPT ![cur] = @ \cup {OutputPath(cur)}]
    /\ log' = [log EXCEPT ![cur] = @ \cup {"is already in MP3 format"}]
    /\ st' = [st EXCEPT ![cur] = "Done"]
    /\ pc' = ResumeAt("Done")
    /\ cur' = NoName
    /\ UNCHANGED <<folder, outdir, initial, made, todo, calls, ret>>

\* Line 69: no signature matched; the file is skipped with a message.
SkipUnidentified ==
    /\ pc = "convert"
    /\ st[cur] = "Skipped"
    /\ log' = [log EXCEPT ![cur] = @ \cup {"Couldn't identify audio type"}]
    /\ st' = [st EXCEPT ![cur] = "Done"]
    /\ pc' = ResumeAt("Done")
    /\ cur' = NoName
    /\ UNCHANGED <<folder, outdir, fs, initial, made, todo, calls, ret, wrote>>

\* Line 82 exhausted: the scan is over and the script ends.
Finish ==
    /\ pc = "scan"
    /\ todo = {}
    /\ pc' = "done"
    /\ UNCHANGED <<folder, outdir, fs, initial, made, todo, cur, st, calls,
                   log, ret, wrote>>

Next ==
    \/ Start
    \/ PassOver
    \/ SkipExtension
    \/ Dispatch
    \/ Decode
    \/ Encode
    \/ Copy
    \/ SkipUnidentified
    \/ Finish

Spec == Init /\ [][Next]_vars

\* Every external tool call blocks until the tool exits and the loop then
\* goes on: a step that can be taken is taken.
InitFair == InitWith(Folders(FairCandidates))

FairSpec == InitFair /\ [][Next]_vars /\ WF_vars(Next)

\* The runs on a folder that contains the files of the scenario and at most
\* one more entry.
InitScenario == InitWith(ScenarioFolders)

SpecScenario == InitScenario /\ [][Next]_vars

(***************************************************************************)
(* Properties                                                              *)
(***************************************************************************)
Decoders == {"opusdec", "oggdec", "ffmpeg"}

\* convert_audio was called for the entry (the classifier ran).
Handled(n) == calls[n] # <<>>

Terminal(n) == st[n] \in {"Done", "Failed"}

ToolCount(n, tools) ==
    Cardinality({i \in 1..Len(calls[n]) : calls[n][i].tool \in tools})

IsMp3(desc) == StartsWith(desc, SigMP3)

SupportedNonMp3(desc) ==
    \E sig \in {SigOpus, SigVorbis, Sig3GPP, SigAAC, SigALAC, SigMP4v2} :
        StartsWith(desc, sig)

ExpectedDecoder(desc) ==
    IF StartsWith(desc, SigOpus) THEN "opusdec"
    ELSE IF StartsWith(desc, SigVorbis) THEN "oggdec"
    ELSE "ffmpeg"

\* The entries the entry point is to hand to convert_audio, by their name
\* and kind: regular, not hidden, ending in one of the five extensions.
AcceptedExtensions == {"ogg", "m4a", "opus", "aac", "mp4"}

Eligible(n) ==
    /\ n \in Names
    /\ EntryOf(n).kind = "file"
    /\ n[1] # "."
    /\ Len(n) >= 2
    /\ n[Len(n) - 1] = "."
    /\ n[Len(n)] \in AcceptedExtensions

\* C1: a handled file of a supported type other than MP3 has exactly one
\* decoder run for it, the one of its type; after exit code 0 exactly one
\* lame run follows, after another exit code lame is never run and nothing
\* is written to the file's output path.
C1_DecodeThenEncode ==
    \A n \in Names :
        (Handled(n) /\ SupportedNonMp3(AudioType(n))) =>
            LET c == calls[n]
                d == ExpectedDecoder(AudioType(n))
            IN  /\ ToolCount(n, Decoders) <= 1
                /\ ToolCount(n, {"lame"}) <= 1
                /\ \A i \in 1..Len(c) :
                      /\ c[i].tool \in Decoders => c[i].tool = d
                      /\ c[i].tool = "lame" =>
                            i > 1 /\ c[i - 1].tool = d /\ c[i - 1].rc = 0
                /\ Terminal(n) =>
                      /\ Len(c) >= 2
                      /\ c[2].tool = d
                      /\ c[2].rc = 0 => Len(c) = 3 /\ c[3].tool = "lame"
                      /\ c[2].rc # 0 =>
                            /\ Len(c) = 2
                            /\ st[n] = "Failed"
                            /\ OutputPath(n) \notin wrote[n]

\* A run in which one file went through decoder and encoder and the decoder
\* of another one failed.
C1_Witness ==
    \E n, m \in Names :
        /\ SupportedNonMp3(AudioType(n)) /\ Terminal(n) /\ Len(calls[n]) = 3
        /\ SupportedNonMp3(AudioType(m)) /\ Terminal(m) /\ Len(calls[m]) = 2
        /\ calls[m][2].rc # 0

C2_NoToolNoTemp ==
    \A n \in Names :
        (Handled(n) /\ IsMp3(AudioType(n))) =>
            /\ ToolCount(n, Decoders \cup {"lame"}) = 0
            /\ TempPath(OutputPath(n)) \notin wrote[n]

C2_CopyStep ==
    \A n \in Names :
        (/\ Handled(n) /\ IsMp3(AudioType(n))
         /\ ~Terminal(n)
         /\ st'[n] \in {"Done", "Failed"}) =>
            /\ st'[n] = "Done"
            /\ fs'[OutputPath(n)] = InputContent(n)

\* C2: when the processing of a file classified as MP3 ends, the file at its
\* output path has the content of the input file; no decoder and no encoder
\* is ever run for it and its temp path is never written.
C2_Passthrough == []C2_NoToolNoTemp /\ [][C2_CopyStep]_vars

\* An MP3 file was processed and its copy is at the output path.
C2_Witness ==
    \E n \in Names :
        /\ IsMp3(AudioType(n))
        /\ st[n] = "Done"
        /\ fs[OutputPath(n)] = InputContent(n)

NameA == <<"a", ".", "mp3">>
NameB == <<"b", ".", "ogg">>
NameC == <<"c", ".", "m4a">>
NameD == <<"d", ".", "txt">>

NoToolFailed ==
    \A n \in Names : \A i \in 1..Len(calls[n]) : calls[n][i].rc = 0

\* C3 as stated: on a folder with a.mp3, b.ogg (Vorbis), c.m4a and d.txt and
\* no failing tool the run ends with a copy of a.mp3 at the output path of
\* a.mp3, with b.mp3 and c.mp3 in the output folder, and with d.txt skipped.
C3_Original ==
    (pc = "done" /\ NoToolFailed) =>
        /\ fs[OutputPath(NameA)] = InputContent(NameA)
        /\ fs[OutputPath(NameB)] # Absent
        /\ fs[OutputPath(NameC)] # Absent
        /\ wrote[NameD] = {} /\ "Skipping" \in log[NameD]

\* C3 amended: a.mp3 is skipped like d.txt (no tool run, nothing written, a
\* skip message), since .mp3 is not among the accepted extensions; b.mp3 and
\* c.mp3 are in the output folder.
C3_Amended ==
    (pc = "done" /\ NoToolFailed) =>
        /\ calls[NameA] = <<>> /\ wrote[NameA] = {}
        /\ "Skipping" \in log[NameA]
        /\ fs[OutputPath(NameA)] = initial.fs[OutputPath(NameA)]
        /\ fs[OutputPath(NameB)] # Absent
        /\ fs[OutputPath(NameC)] # Absent
        /\ calls[NameD] = <<>> /\ wrote[NameD] = {}
        /\ "Skipping" \in log[NameD]

\* The run on exactly the four files of the scenario ended, no tool failed.
C3_Witness ==
    /\ pc = "done"
    /\ NoToolFailed
    /\ folder = ScenarioEntries
    /\ fs[OutputPath(NameB)] = Mp3(NameB)
    /\ fs[OutputPath(NameC)] = Mp3(NameC)

\* C4: for an entry that is hidden, is no regular file or does not end in
\* one of the five extensions (in lower case) no tool is ever run and no
\* path of the output folder is changed; it is never in a failed state and
\* the only message about it is the skip message.
C4_Untouched ==
    \A n \in Names \cup {OutFolderName} :
        ~Eligible(n) =>
            /\ calls[n] = <<>>
            /\ wrote[n] = {}
            /\ st[n] = "Unclassified"
            /\ log[n] \subseteq {"Skipping"}

\* A finished run over a hidden entry and an entry skipped for its extension.
C4_Witness ==
    /\ pc = "done"
    /\ \E n \in Names : n[1] = "."
    /\ \E m \in Names : ~Eligible(m) /\ "Skipping" \in log[m]

DecodedOk(n) ==
    \E i \in 1..Len(calls[n]) : calls[n][i].tool \in Decoders /\ calls[n][i].rc = 0

\* C5, first part: the step of the encoder removes the temp file and returns
\* True on exit code 0, leaves it in place and returns False otherwise.
C5_EncoderStep ==
    [][\A n \in Names :
          (st[n] = "Encoding" /\ st'[n] # "Encoding") =>
              LET c == calls'[n][Len(calls'[n])]
                  temp_file == TempPath(OutputPath(n))
              IN  /\ c.tool = "lame"
                  /\ c.rc = 0 => fs'[temp_file] = Absent /\ ret'[n] = "True"
                  /\ c.rc # 0 => fs'[temp_file] = fs[temp_file]
                                 /\ fs[temp_file] # Absent
                                 /\ ret'[n] = "False"]_vars

\* C5, its consequence: at the end of a run the temp file of a file whose
\* decoding succeeded exists if and only if the encoding of that file failed.
C5_LeakIffEncodeFailed ==
    pc = "done" =>
        \A n \in Names :
            DecodedOk(n) =>
                (fs[TempPath(OutputPath(n))] # Absent <=> ret[n] = "False")

C6_NoRetry ==
    \A n \in Names :
        /\ \A i, j \in 1..Len(calls[n]) :
              i # j => calls[n][i].tool # calls[n][j].tool
        /\ \A i \in 1..Len(calls[n]) :
              calls[n][i].rc # 0 => i = Len(calls[n])
        /\ ~Eligible(n) => calls[n] = <<>>

C6_AllProcessed ==
    /\ pc = "done"
    /\ \A n \in Names :
          Eligible(n) => ToolCount(n, {"file"}) = 1 /\ Terminal(n)

\* C6: whatever the tools return, the run reaches its end with every
\* eligible file handed to convert_audio exactly once and in state Done or
\* Failed; no tool is run twice for a file and a failed tool run is the last
\* one for its file.
C6_ScanCompletes == <>C6_AllProcessed /\ []C6_NoRetry

\* A file is being converted after the processing of another one failed.
C6_Witness ==
    /\ pc = "convert"
    /\ \E n \in Names : st[n] = "Failed"

ProcessedPaths ==
    UNION {{OutputPath(n), TempPath(OutputPath(n))} : n \in {m \in Names : Handled(m)}}

\* C7: os.makedirs is called once if the output folder was absent and never
\* if it was there; every file of the output folder that is at neither the
\* output path nor the temp path of a file handled in this run is as the run
\* found it.
C7_OutputFolderReused ==
    /\ pc = "start" => made = 0 /\ outdir = initial.outdir
    /\ pc # "start" => outdir /\ made = (IF initial.outdir THEN 0 ELSE 1)
    /\ \A p \in AllPaths \ ProcessedPaths : fs[p] = initial.fs[p]

\* A finished run that wrote to an output folder an earlier run had left
\* files in, one of them at a path of a file not handled in this run.
C7_Witness ==
    /\ pc = "done"
    /\ initial.outdir
    /\ \E n \in Names : wrote[n] # {}
    /\ \E p \in StalePaths \ ProcessedPaths : p # KeepPath /\ fs[p] = Old
    /\ fs[KeepPath] = Old

\* The branches in their order of priority, each with its signatures.
Priority ==
    << <<{SigOpus}, "OpusDecoding">>,
       <<{SigVorbis}, "VorbisDecoding">>,
       <<{Sig3GPP, SigAAC, SigALAC, SigMP4v2}, "Mp4Decoding">>,
       <<{SigMP3}, "DirectCopy">> >>

FirstMatch(desc) ==
    LET hits == {i \in 1..Len(Priority) :
                    \E sig \in Priority[i][1] : StartsWith(desc, sig)}
    IN  IF hits = {} THEN "Skipped"
        ELSE Priority[CHOOSE i \in hits : \A j \in hits : i <= j][2]

\* The branches the tools run and the messages printed for n give away.
BranchesTaken(n) ==
    {b \in {"OpusDecoding", "VorbisDecoding", "Mp4Decoding"} :
        \E i \in 1..Len(calls[n]) : calls[n][i].tool = DecoderOf(b)}
    \cup (IF "is already in MP3 format" \in log[n] THEN {"DirectCopy"} ELSE {})
    \cup (IF "Couldn't identify audio type" \in log[n] THEN {"Skipped"} ELSE {})

\* C8: convert_audio takes exactly one branch, the first of the priority
\* order whose signature the classifier output starts with, and the skip
\* branch if there is none; on the skip branch only the classifier is run,
\* nothing is written and the skip message is printed.
C8_FirstMatchingBranch ==
    \A n \in Names :
        Handled(n) =>
            LET b == FirstMatch(AudioType(n))
            IN  /\ BranchesTaken(n) \subseteq {b}
                /\ Terminal(n) => BranchesTaken(n) = {b}
                /\ ~Terminal(n) => st[n] \in {b, "Encoding"}
                /\ b = "Skipped" =>
                      /\ ToolCount(n, Decoders \cup {"lame"}) = 0
                      /\ wrote[n] = {}
                      /\ st[n] # "Failed"

\* A file with an empty classifier output and a file whose classifier
\* output names another MPEG layer than III were both skipped.
C8_Witness ==
    \E n, m \in Names :
        /\ AudioType(n) = DescEmpty /\ st[n] = "Done"
        /\ "Couldn't identify audio type" \in log[n]
        /\ AudioType(m) = DescMP2 /\ st[m] = "Done"
        /\ "Couldn't identify audio type" \in log[m]

DecodingStates == {"OpusDecoding", "VorbisDecoding", "Mp4Decoding"}

AllowedTransitions ==
    ({"Unclassified"} \X (DecodingStates \cup {"DirectCopy", "Skipped"}))
    \cup (DecodingStates \X {"Encoding", "Failed"})
    \cup ({"Encoding"} \X {"Done", "Failed"})
    \cup ({"DirectCopy", "Skipped"} \X {"Done"})

C9_Transition ==
    \A n \in AllNames :
        st'[n] # st[n] =>
            /\ <<st[n], st'[n]>> \in AllowedTransitions
            /\ st[n] \in DecodingStates =>
                  LET c == calls'[n][Len(calls'[n])]
                  IN  c.tool \in Decoders /\ (st'[n] = "Encoding" <=> c.rc = 0)
            /\ st[n] = "Encoding" =>
                  LET c == calls'[n][Len(calls'[n])]
                  IN  c.tool = "lame" /\ (st'[n] = "Done" <=> c.rc = 0)

C9_AtMostOneActive ==
    Cardinality({n \in AllNames :
                    st[n] \notin {"Unclassified", "Done", "Failed"}}) <= 1

\* C9: the state of a file changes only along the transitions of the
\* per-file state machine, to Encoding exactly on a decoder's exit code 0
\* and from Encoding to Done exactly on the encoder's exit code 0, and at
\* most one file is in a state other than Unclassified, Done and Failed.
C9_StateMachine == [][C9_Transition]_vars /\ []C9_AtMostOneActive

\* A file is about to be encoded after the processing of another one failed.
C9_Witness ==
    \E n, m \in Names : st[n] = "Encoding" /\ st[m] = "Failed"

\* C10: two distinct files handed to convert_audio in a run have distinct
\* output paths, and no path is changed by the processing of both.
C10_DistinctOutputPaths ==
    \A n, m \in Names :
        (n # m /\ Handled(n) /\ Handled(m)) =>
            /\ OutputPath(n) # OutputPath(m)
            /\ wrote[n] \cap wrote[m] = {}

=============================================================================
